---- MODULE Spec2Model ----
(***************************************************************************)
(* Model of jj-status-parser (src/src/lib.rs): the winnow grammar that     *)
(* turns the text of `jj status` into a Status, and the Display            *)
(* implementations that render it back.                                    *)
(*                                                                         *)
(* A &str is a sequence of one-character strings.  A leaf parser           *)
(* fn(&mut &str) is an operator from the remaining input to a record       *)
(*   [ok |-> BOOLEAN, val |-> the parsed value, rest |-> what is left];    *)
(* the sequencing parsers (seq!, separated, alt, opt) are the actions,     *)
(* which move the cursor `rest` one grammar element at a time.             *)
(* An Option<String> is [some |-> BOOLEAN, v |-> the text].                *)
(***************************************************************************)
EXTENDS Integers, Sequences, FiniteSets, TLC

VARIABLES gen, input, goal, pass, pc, rest, changes, who, cur, working, parent, res,
          rendered, parsed

vars ==
  <<gen, input, goal, pass, pc, rest, changes, who, cur, working, parent, res, rendered, parsed>>

\* ------------------------------------------------------------------------
\* Characters and their order (Rust compares chars by code point)
\* ------------------------------------------------------------------------
AsciiLow ==
  << " ", "!", "\"", "#", "$", "%", "&", "'", "(", ")", "*", "+", ",", "-", ".", "/",
     "0", "1", "2", "3", "4", "5", "6", "7", "8", "9", ":", ";", "<", "=", ">", "?",
     "@", "A", "B", "C", "D", "E", "F", "G", "H", "I", "J", "K", "L", "M", "N", "O",
     "P", "Q", "R", "S", "T", "U", "V", "W", "X", "Y", "Z", "[", "\\", "]", "^", "_" >>

AsciiHigh ==
  << "a", "b", "c", "d", "e", "f", "g", "h", "i", "j", "k", "l", "m", "n", "o",
     "p", "q", "r", "s", "t", "u", "v", "w", "x", "y", "z", "{", "|", "}", "~" >>

NL == "\n"

TAB == "\t"

\* code points: tab 9, newline 10, ' ' 32 .. '_' 95, 'a' 97 .. '~' 126
Code ==
  [c \in {AsciiLow[i] : i \in 1..Len(AsciiLow)}
          \cup {AsciiHigh[i] : i \in 1..Len(AsciiHigh)} \cup {NL, TAB} |->
     IF c = NL THEN 10
     ELSE IF c = TAB THEN 9
     ELSE IF \E i \in 1..Len(AsciiLow) : AsciiLow[i] = c
          THEN 31 + CHOOSE i \in 1..Len(AsciiLow) : AsciiLow[i] = c
          ELSE 96 + CHOOSE i \in 1..Len(AsciiHigh) : AsciiHigh[i] = c]

char_between_inclusive(c, lower, upper) ==
  Code[c] >= Code[lower] /\ Code[c] <= Code[upper]

\* ------------------------------------------------------------------------
\* String helpers (what the winnow combinators do on a &str)
\* ------------------------------------------------------------------------
Drop(s, n) == SubSeq(s, n + 1, Len(s))

Take(s, n) == SubSeq(s, 1, n)

StartsWith(s, lit) == Len(s) >= Len(lit) /\ Take(s, Len(lit)) = lit

Contains(s, c) == \E i \in 1..Len(s) : s[i] = c

\* the only element of a one-element set; {e : x \in {v}} evaluates v once
The(S) == CHOOSE x \in S : TRUE

\* offset of the earliest occurrence of lit in s, or -1
FindSlice(s, lit) ==
  LET hits == {i \in 0..(Len(s) - Len(lit)) : SubSeq(s, i + 1, i + Len(lit)) = lit}
  IN IF hits = {} THEN -1 ELSE CHOOSE i \in hits : \A j \in hits : i <= j

Ok(v, r) == [ok |-> TRUE, val |-> v, rest |-> r]

Err(v, r) == [ok |-> FALSE, val |-> v, rest |-> r]

None == [some |-> FALSE, v |-> << >>]

Some(t) == [some |-> TRUE, v |-> t]

\* a literal used as a parser
Tag(lit, s) == IF StartsWith(s, lit) THEN Ok(lit, Drop(s, Len(lit))) ELSE Err(<< >>, s)

IsChangeIdChar(c) == char_between_inclusive(c, "k", "z")

IsCommitIdChar(c) ==
  char_between_inclusive(c, "0", "9") \/ char_between_inclusive(c, "a", "f")

IsSpace(c) == c = " " \/ c = TAB

IsPartChar(c) == ~(c = "/" \/ c = NL)

IsNotNewline(c) == c # NL

\* the predicates handed to take_while / take_till
Accepts(class, c) ==
  CASE class = "change_id" -> IsChangeIdChar(c)
    [] class = "commit_id" -> IsCommitIdChar(c)
    [] class = "space" -> IsSpace(c)
    [] class = "part" -> IsPartChar(c)
    [] class = "line" -> IsNotNewline(c)

\* how many leading characters of s the predicate accepts
LeadingRun(s, class) ==
  (CHOOSE i \in 1..(Len(s) + 1) :
     /\ (i = Len(s) + 1 \/ ~Accepts(class, s[i]))
     /\ \A j \in 1..(i - 1) : Accepts(class, s[j])) - 1

\* take_while(min.., predicate), take_till(min.., predicate)
TakeRun(min, class, s) ==
  The({ IF n >= min THEN Ok(Take(s, n), Drop(s, n)) ELSE Err(<< >>, s) :
        n \in {LeadingRun(s, class)} })

space0(s) == TakeRun(0, "space", s)

\* whitespace that may be missing
space1_or_nothing(s) == TakeRun(0, "space", s)

space1(s) == TakeRun(1, "space", s)

newline(s) == Tag(<<NL>>, s)

\* ------------------------------------------------------------------------
\* Literals of the grammar
\* ------------------------------------------------------------------------
EMPTY_DESCRIPTION ==
  << "(", "n", "o", " ", "d", "e", "s", "c", "r", "i", "p", "t", "i", "o", "n", " ",
     "s", "e", "t", ")" >>

EMPTY_MARKER == << "(", "e", "m", "p", "t", "y", ")", " " >>

NO_CHANGES ==
  << "T", "h", "e", " ", "w", "o", "r", "k", "i", "n", "g", " ", "c", "o", "p", "y", " ",
     "h", "a", "s", " ", "n", "o", " ", "c", "h", "a", "n", "g", "e", "s", "." >>

CHANGES_HEADER ==
  << "W", "o", "r", "k", "i", "n", "g", " ", "c", "o", "p", "y", " ",
     "c", "h", "a", "n", "g", "e", "s", ":", NL >>

WORKING_LABEL == << "W", "o", "r", "k", "i", "n", "g", " ", "c", "o", "p", "y" >>

PARENT_LABEL ==
  << "P", "a", "r", "e", "n", "t", " ", "c", "o", "m", "m", "i", "t", ":" >>

BOOKMARK_DELIM == << " ", "|" >>

\* ------------------------------------------------------------------------
\* Leaf parsers of the file-change grammar
\* ------------------------------------------------------------------------
file_status(s) ==
  IF s # << >> /\ s[1] = "A" THEN Ok("Added", Drop(s, 1))
  ELSE IF s # << >> /\ s[1] = "R" THEN Ok("Removed", Drop(s, 1))
  ELSE IF s # << >> /\ s[1] = "M" THEN Ok("Modified", Drop(s, 1))
  ELSE Err("", s)

part(s) == TakeRun(1, "part", s)

\* the loop of separated(1.., part, "/"): after each part try "/" then a
\* part; when either fails the input goes back to before the "/"
RECURSIVE PartsTail(_, _)
PartsTail(parts, str) ==
  The({ The({ IF sep.ok /\ p.ok THEN PartsTail(Append(acc, p.val), p.rest)
              ELSE [val |-> acc, rest |-> s] :
              p \in {part(sep.rest)} }) :
        acc \in {parts}, s \in {str}, sep \in {Tag(<<"/">>, str)} })

\* parts.iter().collect::<PathBuf>(): the parts pushed one after another,
\* each push putting a separator before a relative part
RECURSIVE PathBufCollect(_)
PathBufCollect(parts) ==
  IF Len(parts) = 1 THEN parts[1]
  ELSE PathBufCollect(Take(parts, Len(parts) - 1)) \o <<"/">> \o parts[Len(parts)]

path(s) ==
  The({ IF first.ok
        THEN The({ Ok(PathBufCollect(all.val), all.rest) :
                   all \in {PartsTail(<<first.val>>, first.rest)} })
        ELSE Err(<< >>, s) :
        first \in {part(s)} })

NoChange == [status |-> "", path |-> << >>]

\* seq!(file_status, space1, path)
file_change(s) ==
  The({ The({ The({ IF st.ok /\ sp.ok /\ p.ok
                    THEN Ok([status |-> st.val, path |-> p.val], p.rest)
                    ELSE Err(NoChange, s) :
                    p \in {path(sp.rest)} }) :
              sp \in {space1(st.rest)} }) :
        st \in {file_status(s)} })

\* ------------------------------------------------------------------------
\* Leaf parsers of the commit-detail grammar
\* ------------------------------------------------------------------------
\* take_while(0..) in place of take_while(1..)
change_id_or_nothing(s) == TakeRun(0, "change_id", s)

change_id(s) == TakeRun(1, "change_id", s)

commit_id(s) == TakeRun(1, "commit_id", s)

\* take_until(1.., " |"): up to the earliest " |", which must not be at
\* offset 0; a peeked text that holds a newline is refused
bookmark(s) ==
  The({ IF at < 1 THEN Err(<< >>, s)
        ELSE IF Contains(Take(s, at), NL) THEN Err(<< >>, s)
        ELSE Ok(Take(s, at), Drop(s, at + Len(BOOKMARK_DELIM))) :
        at \in {FindSlice(s, BOOKMARK_DELIM)} })

\* without the sentinel alternative: the sentinel is stored like any text
description_keeps_sentinel(s) ==
  The({ IF line.ok THEN Ok(Some(line.val), line.rest) ELSE Ok(Some(s), << >>) :
        line \in {TakeRun(1, "line", s)} })

\* the sentinel first; else one or more characters up to a newline; else
\* rest, everything that is left
description(s) ==
  The({ IF lit.ok THEN Ok(None, lit.rest)
        ELSE IF line.ok THEN Ok(Some(line.val), line.rest)
        ELSE Ok(Some(s), << >>) :
        lit \in {Tag(EMPTY_DESCRIPTION, s)}, line \in {TakeRun(1, "line", s)} })

empty(s) ==
  The({ IF m.ok THEN Ok(TRUE, m.rest) ELSE Ok(FALSE, s) : m \in {Tag(EMPTY_MARKER, s)} })

NoDetails ==
  [change_id |-> << >>, commit_id |-> << >>, empty |-> FALSE,
   bookmark |-> None, description |-> None]

NoCommit == [variant |-> "", details |-> NoDetails]

NoStatus == [file_changes |-> << >>, working_copy |-> NoCommit, parent_commit |-> NoCommit]

\* ------------------------------------------------------------------------
\* Display
\* ------------------------------------------------------------------------
FileStatusDisplay(st) ==
  IF st = "Added" THEN <<"A">> ELSE IF st = "Modified" THEN <<"M">> ELSE <<"R">>

WorkingCopyChangeDisplay(c) == FileStatusDisplay(c.status) \o <<" ">> \o c.path

CommitDetailsDisplay(d) ==
  LET em == IF d.empty THEN << "(", "e", "m", "p", "t", "y", ")" >> ELSE << >>
      bm == IF d.bookmark.some THEN d.bookmark.v \o << " ", "|", " " >> ELSE << >>
      de == IF d.description.some THEN d.description.v ELSE EMPTY_DESCRIPTION
  IN d.change_id \o <<" ">> \o d.commit_id \o <<" ">> \o em \o bm \o de

CommitDisplay(c) == CommitDetailsDisplay(c.details)

RECURSIVE ChangesDisplay(_)
ChangesDisplay(cs) ==
  IF cs = << >> THEN << >>
  ELSE WorkingCopyChangeDisplay(cs[1]) \o ChangesDisplay(Drop(cs, 1))

StatusDisplay(st) ==
  ChangesDisplay(st.file_changes)
    \o WORKING_LABEL \o << " ", ":", " " >> \o CommitDisplay(st.working_copy)
    \o PARENT_LABEL \o << " " >> \o CommitDisplay(st.parent_commit)

CommitDetailsDescription(d) ==
  IF d.description.some THEN d.description.v ELSE EMPTY_DESCRIPTION

\* ------------------------------------------------------------------------
\* Bounds of the exploration
\* ------------------------------------------------------------------------
\* most change lines in a generated report
MaxChanges == 2

\* widest run of blanks a generated report puts where the grammar wants
\* whitespace
MaxPad == 2

\* longest token text handed to a single parser
MaxText == 4

\* ------------------------------------------------------------------------
\* Reports: the texts handed to Status::from_str
\* ------------------------------------------------------------------------
Blanks(n) == [i \in 1..n |-> " "]

ChangePool ==
  << [letter |-> "A", status |-> "Added",    path |-> << "s", "r", "c", "/", "a", ".", "r", "s" >>],
     [letter |-> "M", status |-> "Modified", path |-> << "b", " ", "c" >>],
     [letter |-> "R", status |-> "Removed",  path |-> << "d", "/", "e", "/", "f" >>] >>

\* the n change lines of a report, starting at entry rot of the pool
GenChanges(n, rot) == [i \in 1..n |-> ChangePool[((i - 1 + rot) % Len(ChangePool)) + 1]]

ChangeLine(c, pad) == <<c.letter>> \o Blanks(pad) \o c.path

RECURSIVE JoinLines(_)
JoinLines(ls) ==
  IF ls = << >> THEN << >>
  ELSE IF Len(ls) = 1 THEN ls[1]
  ELSE ls[1] \o <<NL>> \o JoinLines(Drop(ls, 1))

BookmarkPool == {None, Some(<< "m", "a", "i", "n" >>)}

DescriptionPool ==
  {None, Some(<< >>), Some(<< "i", "n", "i", "t" >>), Some(<< "a", "d", "d", " ", "x" >>)}

WcIds == [change_id |-> << "q", "n" >>, commit_id |-> << "6", "0", "b", "e" >>]

ParIds == [change_id |-> << "z", "z" >>, commit_id |-> << "0", "0" >>]

Fields == [empty : BOOLEAN, bookmark : BookmarkPool, description : DescriptionPool]

\* what follows the two ids on a commit line
TailText(f) ==
  (IF f.empty THEN EMPTY_MARKER ELSE << >>)
    \o (IF f.bookmark.some THEN f.bookmark.v \o << " ", "|", " " >> ELSE << >>)
    \o (IF f.description.some THEN f.description.v ELSE EMPTY_DESCRIPTION)

\* a commit line without its label; drop names the mandatory token left out
DetailsText(ids, f, pad, drop) ==
  (IF drop = "change_id" THEN << >> ELSE ids.change_id)
    \o (IF drop \in {"change_id", "ws1"} THEN << >> ELSE Blanks(pad))
    \o (IF drop = "commit_id" THEN << >> ELSE ids.commit_id)
    \o (IF drop \in {"commit_id", "ws2"} THEN << >> ELSE Blanks(pad))
    \o TailText(f)

Drops == {"change_id", "ws1", "commit_id", "ws2"}

WcLine(g) ==
  WORKING_LABEL \o << " ", ":" >> \o Blanks(g.pad)
    \o DetailsText(WcIds, g.wc, g.pad, IF g.defect = "wc_drop" THEN g.drop ELSE "")

ParLine(g) ==
  PARENT_LABEL \o Blanks(g.pad)
    \o DetailsText(ParIds, g.par, g.pad, IF g.defect = "par_drop" THEN g.drop ELSE "")

SectionLines(g) ==
  IF g.sect = "sentence" THEN << NO_CHANGES >>
  ELSE (IF g.sect = "header" THEN << Take(CHANGES_HEADER, Len(CHANGES_HEADER) - 1) >> ELSE << >>)
         \o [i \in 1..g.n |-> ChangeLine(GenChanges(g.n, g.rot)[i], g.pad)]

Defects ==
  {"none", "wc_drop", "par_drop", "trailing_newline", "trailing_line",
   "no_working_copy", "no_parent", "swapped", "joined", "change_last", "change_between"}

ReportText(g) ==
  LET sec == SectionLines(g)
  IN CASE g.defect = "trailing_newline" -> JoinLines(sec \o << WcLine(g), ParLine(g) >>) \o <<NL>>
       [] g.defect = "trailing_line" -> JoinLines(sec \o << WcLine(g), ParLine(g), << "x" >> >>)
       [] g.defect = "no_working_copy" -> JoinLines(sec \o << ParLine(g) >>)
       [] g.defect = "no_parent" -> JoinLines(sec \o << WcLine(g) >>)
       [] g.defect = "swapped" -> JoinLines(sec \o << ParLine(g), WcLine(g) >>)
       [] g.defect = "joined" -> JoinLines(sec \o << WcLine(g) \o ParLine(g) >>)
       [] g.defect = "change_last" ->
            JoinLines(sec \o << WcLine(g), ParLine(g), ChangeLine(ChangePool[1], g.pad) >>)
       [] g.defect = "change_between" ->
            JoinLines(sec \o << WcLine(g), ChangeLine(ChangePool[1], g.pad), ParLine(g) >>)
       [] OTHER -> JoinLines(sec \o << WcLine(g), ParLine(g) >>)

PlainFields == {f \in Fields : ~f.empty /\ f.description = None}

\* the reports explored: every clean report, and for each defect a
\* narrower family
GenOk(g) ==
  /\ (g.sect = "sentence" => g.n = 0)
  /\ (g.n = 0 => g.rot = 0)
  /\ (g.drop # "") = (g.defect \in {"wc_drop", "par_drop"})
  /\ (g.defect # "none" => g.pad = 1 /\ g.n <= 1 /\ g.rot = 0)
  /\ (g.defect \in {"par_drop", "no_working_copy", "change_last"} => g.wc \in PlainFields)
  /\ (g.defect \in {"wc_drop", "no_parent", "change_between"} => g.par \in PlainFields)
  /\ (g.defect \in {"swapped", "joined"} => g.wc \in PlainFields /\ g.par \in PlainFields)
  /\ (g.defect \in {"trailing_newline", "trailing_line"} =>
        g.sect = "bare" /\ g.n = 0 /\ g.wc \in PlainFields)

NoGen ==
  [sect |-> "bare", n |-> 0, rot |-> 0, pad |-> 1, wc |-> CHOOSE f \in PlainFields : TRUE,
   par |-> CHOOSE f \in PlainFields : TRUE, defect |-> "none", drop |-> ""]


\* ------------------------------------------------------------------------
\* Status::from_str and to_string as a state machine.  pc names the grammar
\* element about to run; rest is the cursor (&mut &str); goal is the parser
\* the caller invoked; pass 2 is the parse of the rendered text.
\* ------------------------------------------------------------------------
Init ==
  /\ \E defect \in Defects, drop \in Drops \cup {""}, sect \in {"sentence", "header", "bare"} :
       \E n \in 0..MaxChanges, rot \in 0..2, pad \in 1..MaxPad :
         /\ (sect = "sentence" => n = 0)
         /\ (n = 0 => rot = 0)
         /\ (drop # "") = (defect \in {"wc_drop", "par_drop"})
         /\ (defect # "none" => pad = 1 /\ n <= 1)
         /\ \E wf \in Fields, pf \in Fields :
              LET g == [sect |-> sect, n |-> n, rot |-> rot, pad |-> pad, wc |-> wf,
                        par |-> pf, defect |-> defect, drop |-> drop]
              IN GenOk(g) /\ gen = g
  /\ input = ReportText(gen)
  /\ goal = "status"
  /\ pass = 1
  /\ pc = "file_changes"
  /\ rest = input
  /\ changes = << >>
  /\ who = ""
  /\ cur = NoDetails
  /\ working = NoCommit
  /\ parent = NoCommit
  /\ res = "pending"
  /\ rendered = << >>
  /\ parsed = NoStatus

\* the parsers that are a single step of the machine
LeafGoals == {"change_id", "commit_id", "bookmark", "description"}

\* a step matched: go on to the next grammar element, or return Ok to the
\* caller when the invoked parser ends here
Goto(next) ==
  LET returns ==
        \/ goal \in LeafGoals
        \/ next = "done"
        \/ (goal = "file_changes" /\ next = "opt_newline")
  IN /\ pc' = IF returns THEN "done" ELSE next
     /\ res' = IF returns THEN "ok" ELSE res

\* a step did not match: the error goes up to the caller (every step of a
\* seq! is mandatory; the cursor stays where the failing step found it)
Fail ==
  /\ pc' = "done"
  /\ res' = "err"

\* alt((file_no_changes, file_yes_changes)), parsed branch
FileNoChanges ==
  /\ pc = "file_changes"
  /\ \E r \in {Tag(NO_CHANGES, rest)} :
       /\ rest' = r.rest
       /\ IF r.ok THEN Goto("opt_newline") ELSE pc' = "changes_header" /\ res' = res
  /\ changes' = << >>
  /\ UNCHANGED <<gen, input, goal, pass, who, cur, working, parent, rendered, parsed>>

\* file_yes_changes: opt("Working copy changes:\n")
FileYesChangesHeader ==
  /\ pc = "changes_header"
  /\ \E r \in {Tag(CHANGES_HEADER, rest)} : rest' = r.rest
  /\ Goto("first_change")
  /\ UNCHANGED <<gen, input, goal, pass, changes, who, cur, working, parent, rendered, parsed>>

\* separated(0.., file_change, "\n"): the parsed element; without one the
\* list is empty and nothing is consumed
FileYesChangesFirst ==
  /\ pc = "first_change"
  /\ \E r \in {file_change(rest)} :
       /\ rest' = r.rest
       /\ changes' = IF r.ok THEN <<r.val>> ELSE << >>
       /\ IF r.ok THEN Goto("more_changes") ELSE Goto("opt_newline")
  /\ UNCHANGED <<gen, input, goal, pass, who, cur, working, parent, rendered, parsed>>

\* separated(0.., file_change, "\n") without the reset: a separator that no
\* element follows stays consumed
FileYesChangesMoreKeepsSeparator ==
  /\ pc = "more_changes"
  /\ \E sep \in {newline(rest)} :
       \E r \in {file_change(sep.rest)} :
         IF sep.ok /\ r.ok
         THEN /\ changes' = Append(changes, r.val)
              /\ rest' = r.rest
              /\ Goto("more_changes")
         ELSE /\ changes' = changes
              /\ rest' = sep.rest
              /\ Goto("opt_newline")
  /\ UNCHANGED <<gen, input, goal, pass, who, cur, working, parent, rendered, parsed>>

\* separated(0.., file_change, "\n"): a separator and one more element;
\* when either is missing the cursor goes back to before the separator
FileYesChangesMore ==
  /\ pc = "more_changes"
  /\ \E sep \in {newline(rest)} :
       \E r \in {file_change(sep.rest)} :
         IF sep.ok /\ r.ok
         THEN /\ changes' = Append(changes, r.val)
              /\ rest' = r.rest
              /\ Goto("more_changes")
         ELSE /\ changes' = changes
              /\ rest' = rest
              /\ Goto("opt_newline")
  /\ UNCHANGED <<gen, input, goal, pass, who, cur, working, parent, rendered, parsed>>

\* status: opt(newline)
StatusOptNewline ==
  /\ pc = "opt_newline"
  /\ \E r \in {newline(rest)} : rest' = r.rest
  /\ Goto("working_copy")
  /\ UNCHANGED <<gen, input, goal, pass, changes, who, cur, working, parent, rendered, parsed>>

\* working_copy: "Working copy", space1, ":", space1, then commit_details
WorkingCopyLabel ==
  /\ pc = "working_copy"
  /\ \E a \in {Tag(WORKING_LABEL, rest)} :
       \E b \in {space1(a.rest)} :
         \E c \in {Tag(<<":">>, b.rest)} :
           \E d \in {space1(c.rest)} :
             IF a.ok /\ b.ok /\ c.ok /\ d.ok
             THEN rest' = d.rest /\ who' = "working" /\ Goto("change_id")
             ELSE rest' = rest /\ who' = who /\ Fail
  /\ UNCHANGED <<gen, input, goal, pass, changes, cur, working, parent, rendered, parsed>>

\* commit_details: change_id
DetailsChangeId ==
  /\ pc = "change_id"
  /\ \E r \in {change_id(rest)} :
       /\ rest' = r.rest
       /\ cur' = [NoDetails EXCEPT !.change_id = r.val]
       /\ IF r.ok THEN Goto("space_a") ELSE Fail
  /\ UNCHANGED <<gen, input, goal, pass, changes, who, working, parent, rendered, parsed>>

\* commit_details: space1 after the change id
DetailsSpaceA ==
  /\ pc = "space_a"
  /\ \E r \in {space1(rest)} :
       /\ rest' = r.rest
       /\ IF r.ok THEN Goto("commit_id") ELSE Fail
  /\ UNCHANGED <<gen, input, goal, pass, changes, who, cur, working, parent, rendered, parsed>>

\* commit_details: commit_id
DetailsCommitId ==
  /\ pc = "commit_id"
  /\ \E r \in {commit_id(rest)} :
       /\ rest' = r.rest
       /\ cur' = [cur EXCEPT !.commit_id = r.val]
       /\ IF r.ok THEN Goto("space_b") ELSE Fail
  /\ UNCHANGED <<gen, input, goal, pass, changes, who, working, parent, rendered, parsed>>

\* commit_details: space1 after the commit id
DetailsSpaceB ==
  /\ pc = "space_b"
  /\ \E r \in {space1(rest)} :
       /\ rest' = r.rest
       /\ IF r.ok THEN Goto("empty") ELSE Fail
  /\ UNCHANGED <<gen, input, goal, pass, changes, who, cur, working, parent, rendered, parsed>>

\* commit_details: empty
DetailsEmpty ==
  /\ pc = "empty"
  /\ \E r \in {empty(rest)} :
       /\ rest' = r.rest
       /\ cur' = [cur EXCEPT !.empty = r.val]
  /\ Goto("space_c")
  /\ UNCHANGED <<gen, input, goal, pass, changes, who, working, parent, rendered, parsed>>

\* commit_details: space0 after the marker
DetailsSpaceC ==
  /\ pc = "space_c"
  /\ \E r \in {space0(rest)} : rest' = r.rest
  /\ Goto("bookmark")
  /\ UNCHANGED <<gen, input, goal, pass, changes, who, cur, working, parent, rendered, parsed>>

\* commit_details: opt(bookmark); called on its own, bookmark is not
\* wrapped in opt and its error goes to the caller
DetailsBookmark ==
  /\ pc = "bookmark"
  /\ \E r \in {bookmark(rest)} :
       /\ rest' = r.rest
       /\ cur' = [cur EXCEPT !.bookmark = IF r.ok THEN Some(r.val) ELSE None]
       /\ IF r.ok \/ goal # "bookmark" THEN Goto("space_d") ELSE Fail
  /\ UNCHANGED <<gen, input, goal, pass, changes, who, working, parent, rendered, parsed>>

\* commit_details: space0 after the bookmark
DetailsSpaceD ==
  /\ pc = "space_d"
  /\ \E r \in {space0(rest)} : rest' = r.rest
  /\ Goto("description")
  /\ UNCHANGED <<gen, input, goal, pass, changes, who, cur, working, parent, rendered, parsed>>

\* where the caller of commit_details goes on
AfterDetails ==
  IF who = "working" THEN "newline" ELSE IF who = "parent" THEN "eof" ELSE "done"

\* commit_details: description, the last field; the finished details are
\* wrapped by the caller into Commit::WorkingCopy or Commit::ParentCommit
DetailsDescription ==
  /\ pc = "description"
  /\ \E r \in {description(rest)} :
       /\ rest' = r.rest
       /\ cur' = [cur EXCEPT !.description = r.val]
  /\ working' = IF who = "working" THEN [variant |-> "WorkingCopy", details |-> cur']
                ELSE working
  /\ parent' = IF who = "parent" THEN [variant |-> "ParentCommit", details |-> cur']
               ELSE parent
  /\ Goto(AfterDetails)
  /\ UNCHANGED <<gen, input, goal, pass, changes, who, rendered, parsed>>

\* status: newline between the two commit lines
StatusNewline ==
  /\ pc = "newline"
  /\ \E r \in {newline(rest)} :
       /\ rest' = r.rest
       /\ IF r.ok THEN Goto("parent_commit") ELSE Fail
  /\ UNCHANGED <<gen, input, goal, pass, changes, who, cur, working, parent, rendered, parsed>>

\* parent_commit: "Parent commit:", space1, then commit_details
ParentCommitLabel ==
  /\ pc = "parent_commit"
  /\ \E a \in {Tag(PARENT_LABEL, rest)} :
       \E b \in {space1(a.rest)} :
         IF a.ok /\ b.ok
         THEN rest' = b.rest /\ who' = "parent" /\ Goto("change_id")
         ELSE rest' = rest /\ who' = who /\ Fail
  /\ UNCHANGED <<gen, input, goal, pass, changes, cur, working, parent, rendered, parsed>>

\* Parser::parse accepts any prefix match
FromStrPrefixMatch ==
  /\ pc = "eof"
  /\ Goto("done")
  /\ UNCHANGED <<gen, input, goal, pass, rest, changes, who, cur, working, parent, rendered, parsed>>

\* Parser::parse: after status, the input must be at its end
FromStr ==
  /\ pc = "eof"
  /\ IF rest = << >> THEN Goto("done") ELSE Fail
  /\ UNCHANGED <<gen, input, goal, pass, rest, changes, who, cur, working, parent, rendered, parsed>>

\* the Status a successful parse returns
TheStatus == [file_changes |-> changes, working_copy |-> working, parent_commit |-> parent]

\* to_string() of the parsed Status
Render ==
  /\ goal = "status" /\ pass = 1 /\ pc = "done" /\ res = "ok"
  /\ rendered' = StatusDisplay(TheStatus)
  /\ parsed' = TheStatus
  /\ pc' = "rendered"
  /\ UNCHANGED <<gen, input, goal, pass, rest, changes, who, cur, working, parent, res>>

\* Status::from_str on the rendered text
Reparse ==
  /\ pc = "rendered"
  /\ pass' = 2
  /\ pc' = "file_changes"
  /\ rest' = rendered
  /\ res' = "pending"
  /\ changes' = << >>
  /\ who' = ""
  /\ cur' = NoDetails
  /\ working' = NoCommit
  /\ parent' = NoCommit
  /\ UNCHANGED <<gen, input, goal, rendered, parsed>>

Next ==
  \/ FileNoChanges
  \/ FileYesChangesHeader
  \/ FileYesChangesFirst
  \/ FileYesChangesMore
  \/ StatusOptNewline
  \/ WorkingCopyLabel
  \/ DetailsChangeId
  \/ DetailsSpaceA
  \/ DetailsCommitId
  \/ DetailsSpaceB
  \/ DetailsEmpty
  \/ DetailsSpaceC
  \/ DetailsBookmark
  \/ DetailsSpaceD
  \/ DetailsDescription
  \/ StatusNewline
  \/ ParentCommitLabel
  \/ FromStr
  \/ Render
  \/ Reparse

Spec == Init /\ [][Next]_vars

\* ------------------------------------------------------------------------
\* The parsers called on their own, on short texts over the characters the
\* grammar tells apart
\* ------------------------------------------------------------------------
RECURSIVE Texts(_, _)
Texts(tokens, n) ==
  IF n = 0 THEN {<< >>}
  ELSE Texts(tokens, n - 1) \cup {t \o x : t \in Texts(tokens, n - 1), x \in tokens}

DetailTokens == {<<"k">>, <<"a">>, <<" ">>, <<"|">>, <<NL>>, EMPTY_DESCRIPTION}

ChangeTokens == {<<"A">>, <<"k">>, <<" ">>, <<"/">>, <<NL>>}

IdsPrefix == << "z", "z", " ", "0", "0", " " >>

ChangePrefix == << "M", " ", "b" >>

\* what each parser is called on: a lead, then a short text
Calls ==
  [goal : LeafGoals, lead : {<< >>}, tokens : {DetailTokens}, pc : {""}]
    \cup [goal : {"commit_details"}, lead : {IdsPrefix, IdsPrefix \o EMPTY_MARKER},
          tokens : {DetailTokens}, pc : {"change_id"}]
    \cup [goal : {"file_changes"}, lead : {<< >>, ChangePrefix, NO_CHANGES, CHANGES_HEADER},
          tokens : {ChangeTokens}, pc : {"file_changes"}]

InitParsers ==
  /\ gen = NoGen
  /\ \E c \in Calls :
       /\ goal = c.goal
       /\ pc = IF c.goal \in LeafGoals THEN c.goal ELSE c.pc
       /\ \E t \in Texts(c.tokens, MaxText) : input = c.lead \o t
  /\ pass = 1
  /\ rest = input
  /\ changes = << >>
  /\ who = ""
  /\ cur = NoDetails
  /\ working = NoCommit
  /\ parent = NoCommit
  /\ res = "pending"
  /\ rendered = << >>
  /\ parsed = NoStatus

NextParsers ==
  \/ FileNoChanges
  \/ FileYesChangesHeader
  \/ FileYesChangesFirst
  \/ FileYesChangesMore
  \/ DetailsChangeId
  \/ DetailsSpaceA
  \/ DetailsCommitId
  \/ DetailsSpaceB
  \/ DetailsEmpty
  \/ DetailsSpaceC
  \/ DetailsBookmark
  \/ DetailsSpaceD
  \/ DetailsDescription

SpecParsers == InitParsers /\ [][NextParsers]_vars

\* ------------------------------------------------------------------------
\* Properties
\* ------------------------------------------------------------------------
\* the machine's bookkeeping: a verdict exactly at the end of a call
TypeOK ==
  /\ pass \in {1, 2}
  /\ res \in {"pending", "ok", "err"}
  /\ (res # "pending") = (pc \in {"done", "rendered"})
  /\ Len(rest) <= Len(IF pass = 1 THEN input ELSE rendered)

ParentMatched == parent.variant = "ParentCommit"

\* end of the first parse of a report
Parsed1 == goal = "status" /\ pass = 1 /\ pc = "done"

\* the details a commit line was written from
Written(ids, f) ==
  [change_id |-> ids.change_id, commit_id |-> ids.commit_id, empty |-> f.empty,
   bookmark |-> f.bookmark, description |-> f.description]

\* the changes a report's change lines were written from
WrittenChanges(g) ==
  IF g.sect = "sentence" THEN << >>
  ELSE [i \in 1..g.n |->
          [status |-> GenChanges(g.n, g.rot)[i].status, path |-> GenChanges(g.n, g.rot)[i].path]]

\* the text of s up to, not including, its first newline
LineOf(s) == Take(s, LeadingRun(s, "line"))

\* C1: Status::from_str is a whole-input parse.  It returns a Status only
\* when file_changes, optional newline, working_copy, newline and
\* parent_commit have consumed the text to its very end; whenever a
\* character is left after parent_commit has matched, the result is an
\* error.
C1_WholeInputParse ==
  goal = "status" /\ pc = "done" =>
    /\ (res = "ok" =>
          /\ rest = << >>
          /\ working.variant = "WorkingCopy"
          /\ ParentMatched)
    /\ (ParentMatched /\ rest # << >> => res = "err")

C1_Witness ==
  /\ Parsed1
  /\ ParentMatched
  /\ rest # << >>
  /\ res = "err"

\* C2: parsing the rendering of a parsed Status succeeds and gives back the
\* same file changes and, for both commits, the same change id, commit id,
\* empty flag, bookmark and description.
C2_RenderedTextParsesBack ==
  goal = "status" /\ pass = 2 /\ pc = "done" =>
    /\ res = "ok"
    /\ changes = parsed.file_changes
    /\ working.details = parsed.working_copy.details
    /\ parent.details = parsed.parent_commit.details

\* C3: a report made of a change section (the sentence, or an optional
\* header and n >= 0 change lines, or nothing), a well-formed working-copy
\* line and a well-formed parent-commit line, joined by single newlines,
\* parses to the n changes in order and the fields of the two lines.
C3_WellFormedReportParses ==
  Parsed1 /\ gen.defect = "none" =>
    /\ res = "ok"
    /\ changes = WrittenChanges(gen)
    /\ working = [variant |-> "WorkingCopy", details |-> Written(WcIds, gen.wc)]
    /\ parent = [variant |-> "ParentCommit", details |-> Written(ParIds, gen.par)]

\* C4: when the working-copy line holds no " |" and the parent-commit line
\* that follows does, the working copy gets no bookmark, its commit_details
\* consumes nothing beyond its own line, and the parent commit gets its own
\* bookmark.
C4_NoBookmarkAcrossLines ==
  goal = "status" /\ pass = 1 /\ gen.defect = "none"
    /\ ~gen.wc.bookmark.some /\ gen.par.bookmark.some =>
      /\ (pc = "newline" =>
            /\ working.details.bookmark = None
            /\ rest = <<NL>> \o ParLine(gen))
      /\ (pc = "done" => res = "ok" /\ parent.details.bookmark = gen.par.bookmark)

\* C5: when, after the ids, their whitespace and the optional marker, the
\* current line holds " |" after at least one character, commit_details
\* gives bookmark = Some(the text before the earliest " |"), and the
\* description is the text after the delimiter and its blanks up to the end
\* of the line (absent when that text starts with the sentinel).
C5_BookmarkThenDescription ==
  [][goal = "commit_details" =>
       /\ (pc = "bookmark" /\ FindSlice(LineOf(rest), BOOKMARK_DELIM) >= 1 =>
             cur'.bookmark = Some(Take(rest, FindSlice(LineOf(rest), BOOKMARK_DELIM))))
       /\ (pc = "description" /\ cur.bookmark.some =>
             cur'.description =
               IF StartsWith(rest, EMPTY_DESCRIPTION) THEN None ELSE Some(LineOf(rest)))]_vars

\* the alphabet of an id parser
InAlphabet(g, c) == IF g = "change_id" THEN IsChangeIdChar(c) ELSE IsCommitIdChar(c)

\* C6 as stated: change_id and commit_id reject the empty string and any
\* string holding a character outside their alphabet; on a string of
\* alphabet characters they return the whole string and leave no input.
C6_IdsRejectForeignCharacters ==
  goal \in {"change_id", "commit_id"} /\ pc = "done" =>
    IF input # << >> /\ \A i \in 1..Len(input) : InAlphabet(goal, input[i])
    THEN res = "ok" /\ cur[goal] = input /\ rest = << >>
    ELSE res = "err"

\* C6 amended: change_id and commit_id reject the empty string and any
\* string whose first character is outside their alphabet; otherwise they
\* succeed, return the longest leading run of alphabet characters and leave
\* the remainder, so a string of alphabet characters is returned whole.
C6_IdsTakeAlphabetPrefix ==
  goal \in {"change_id", "commit_id"} /\ pc = "done" =>
    IF input # << >> /\ InAlphabet(goal, input[1])
    THEN /\ res = "ok"
         /\ cur[goal] \o rest = input
         /\ cur[goal] # << >>
         /\ \A i \in 1..Len(cur[goal]) : InAlphabet(goal, cur[goal][i])
         /\ (rest # << >> => ~InAlphabet(goal, rest[1]))
    ELSE res = "err" /\ rest = input

C6_Witness ==
  /\ goal = "change_id" /\ pc = "done" /\ res = "ok"
  /\ rest # << >>
  /\ cur.change_id # << >>

\* the commit line a defect left a token out of, and what it was written from
Dropped == gen.defect \in {"wc_drop", "par_drop"}

DroppedTail == TailText(IF gen.defect = "wc_drop" THEN gen.wc ELSE gen.par)

\* the text after the gap reads as the missing token: hex digits (at least
\* one when the commit id itself is missing) and then a blank
ReadsAsCommitId(tail, least) ==
  \E n \in least..(Len(tail) - 1) :
    /\ \A i \in 1..n : IsCommitIdChar(tail[i])
    /\ IsSpace(tail[n + 1])

\* C7 as stated: a report in which a commit line misses a mandatory token
\* of commit_details steps 1-4 is an error, never a Status.
C7_MissingTokenIsError ==
  Parsed1 /\ Dropped => res = "err"

\* C7 amended: such a report is an error when the change id or the
\* whitespace after it is missing, and when the commit id or the whitespace
\* after it is missing unless the text that follows reads as the missing
\* token (hex digits, then a blank); in that case a Status is returned whose
\* commit id is not the one written.
C7_MissingTokenIsErrorUnlessTextFits ==
  Parsed1 /\ Dropped =>
    /\ (res = "ok") =
         \/ (gen.drop = "commit_id" /\ ReadsAsCommitId(DroppedTail, 1))
         \/ (gen.drop = "ws2" /\ ReadsAsCommitId(DroppedTail, 0))
    /\ (res = "ok" /\ gen.defect = "wc_drop" =>
          working.details.commit_id # WcIds.commit_id)
    /\ (res = "ok" /\ gen.defect = "par_drop" =>
          parent.details.commit_id # ParIds.commit_id)

C7_Witness ==
  /\ Parsed1 /\ gen.defect = "wc_drop" /\ gen.drop = "commit_id"
  /\ res = "ok"
  /\ working.details.commit_id = << "a", "d", "d" >>

\* the details text as stated: "(empty) " with its trailing space
StatedDetails(d) ==
  d.change_id \o <<" ">> \o d.commit_id \o <<" ">>
    \o (IF d.empty THEN EMPTY_MARKER ELSE << >>)
    \o (IF d.bookmark.some THEN d.bookmark.v \o << " ", "|", " " >> ELSE << >>)
    \o (IF d.description.some THEN d.description.v ELSE EMPTY_DESCRIPTION)

\* the lines of the rendering as stated
StatedLines(st) ==
  [i \in 1..Len(st.file_changes) |->
     FileStatusDisplay(st.file_changes[i].status) \o <<" ">> \o st.file_changes[i].path]
    \o << WORKING_LABEL \o << " ", ":", " " >> \o StatedDetails(st.working_copy.details),
          PARENT_LABEL \o << " " >> \o StatedDetails(st.parent_commit.details) >>

\* C8: the rendering is one line "<letter> <path>" per file change, then
\* the line "Working copy : " + details and the line "Parent commit: " +
\* details, the details being change id, space, commit id, space, "(empty) "
\* when empty, "<bookmark> | " when there is a bookmark, and the description
\* or the sentinel.
C8_RenderingShape ==
  pc = "rendered" =>
    \/ rendered = JoinLines(StatedLines(parsed))
    \/ rendered = JoinLines(StatedLines(parsed)) \o <<NL>>

\* C9: description always succeeds and stays on its line: None when the
\* input starts with the sentinel, otherwise Some(the characters up to, not
\* including, the next newline), the newline being left unconsumed.
C9_DescriptionStaysOnLine ==
  goal = "description" /\ pc = "done" =>
    /\ res = "ok"
    /\ IF StartsWith(input, EMPTY_DESCRIPTION)
       THEN cur.description = None /\ rest = Drop(input, Len(EMPTY_DESCRIPTION))
       ELSE /\ cur.description = Some(LineOf(input))
            /\ rest = Drop(input, Len(LineOf(input)))

\* file_changes has returned to status, in the first parse of a report
\* whose commit lines are in place
AfterFileChanges == goal = "status" /\ pass = 1 /\ pc = "opt_newline" /\ gen.defect = "none"

\* the two commit lines of a report
CommitLines(g) == WcLine(g) \o <<NL>> \o ParLine(g)

\* C10 as stated: file_changes never fails; on the sentence it returns the
\* empty sequence and consumes exactly the sentence; otherwise it consumes
\* the optional header line and the change lines and leaves the newline
\* before the "Working copy" line unconsumed.
C10_FileChangesLeavesNewline ==
  /\ (pc \in {"changes_header", "first_change", "more_changes", "opt_newline"} =>
        res = "pending")
  /\ (AfterFileChanges =>
        /\ changes = WrittenChanges(gen)
        /\ (Len(rest) < Len(input) => rest = <<NL>> \o CommitLines(gen)))

\* C10 amended: as stated, except that a header line with no change line
\* after it is consumed with its own newline, so that the input is left at
\* the "Working copy" line itself.
C10_FileChangesConsumesItsSection ==
  /\ (pc \in {"changes_header", "first_change", "more_changes", "opt_newline"} =>
        res = "pending")
  /\ (AfterFileChanges =>
        /\ changes = WrittenChanges(gen)
        /\ rest = IF gen.sect = "sentence" \/ gen.n > 0 THEN <<NL>> \o CommitLines(gen)
                  ELSE CommitLines(gen))

C10_Witness ==
  /\ AfterFileChanges
  /\ gen.sect = "header" /\ gen.n = 0
  /\ rest = CommitLines(gen)
  /\ Len(rest) < Len(input)

\* C11: the sentinel exists only at presentation time.  No CommitDetails
\* from a successful parse stores Some("(no description set)"); a
\* description written as the sentinel is stored as None, which is not the
\* stored empty string; and the description() accessor returns the sentinel
\* exactly when the stored description is None, the stored text otherwise.
C11_SentinelOnlyAtPresentation ==
  goal \in {"description", "commit_details"} /\ pc = "done" /\ res = "ok" =>
    /\ cur.description # Some(EMPTY_DESCRIPTION)
    /\ (goal = "description" /\ StartsWith(input, EMPTY_DESCRIPTION) =>
          cur.description = None)
    /\ (goal = "description" /\ input = << >> =>
          cur.description = Some(<< >>) /\ cur.description # None)
    /\ (CommitDetailsDescription(cur) = EMPTY_DESCRIPTION) = (cur.description = None)
    /\ (cur.description.some => CommitDetailsDescription(cur) = cur.description.v)

C11_Witness ==
  /\ goal = "commit_details" /\ pc = "done" /\ res = "ok"
  /\ StartsWith(input, IdsPrefix \o EMPTY_DESCRIPTION)
  /\ cur.description = None
  /\ CommitDetailsDescription(cur) = EMPTY_DESCRIPTION

\* the reports in which a labelled line is missing, the two lines are
\* swapped or run together, or a change line comes after a commit line
OutOfOrder ==
  gen.defect \in
    {"no_working_copy", "no_parent", "swapped", "joined", "change_last", "change_between"}

\* C12: both commits are always present and in fixed order.  Every Status
\* returned has a WorkingCopy built from the "Working copy" line and a
\* ParentCommit built from the "Parent commit:" line after it; a report in
\* which either line is missing, the lines are swapped, the newline between
\* them is absent, or a change line comes after a commit line is an error.
C12_BothCommitsInOrder ==
  Parsed1 =>
    /\ (res = "ok" =>
          /\ working.variant = "WorkingCopy"
          /\ working.details.change_id = WcIds.change_id
          /\ parent.variant = "ParentCommit"
          /\ parent.details.change_id = ParIds.change_id)
    /\ (OutOfOrder => res = "err")

====
